---- MODULE Spec2Model ----
(***************************************************************************)
(* Events API: users, events, registrations and the per-event FIFO         *)
(* waitlist, all stored as items of one DynamoDB table addressed by        *)
(* (PK, SK).  The table is modelled as one record with one component per   *)
(* item shape (the key prefixes of the shapes are disjoint):               *)
(*   users    USER#u  / PROFILE                                            *)
(*   events   EVENT#e / METADATA                                           *)
(*   byUser   USER#u  / EVENT#e          registration, by-user mirror      *)
(*   byEvent  EVENT#e / REGISTRATION#u   registration, by-event mirror     *)
(*   waitlist EVENT#e / WAITLIST#ts#u                                      *)
(* In the sequential specifications each request handler runs to          *)
(* completion as one action.  In the concurrent specifications a handler   *)
(* is a call in flight on a worker, and each of its store calls is one     *)
(* action.  Strings are sequences of character codes wherever their order  *)
(* matters (the waitlist sort key).                                        *)
(***************************************************************************)
EXTENDS Integers, Sequences, FiniteSets, TLC

(* ------------------------------ bounds -------------------------------- *)

\* last clock tick the model lets the wall clock reach
MaxClock == 1

\* last clock tick in the histories in which events are updated and deleted
MaxManagedClock == 0

\* clock ticks per second (the code's clock has 10^6 microseconds per second)
TicksPerSecond == 2

\* largest capacity a create or update request carries
MaxCapacity == 2

\* most waitlist entries the model lets one event accumulate
MaxWaitlist == 2

\* the same, in the histories of the engine alone
MaxEngineWaitlist == 3

\* most calls the workers serve in one concurrent history
MaxCalls == 3

UserIds == {"a", "b", "c"}

EventIds == {"e1"}

Names == {"n1"}

\* the names of the requests of the user histories
UserNames == {"n1", "n2"}

\* the workers that serve requests concurrently
Procs == {"p1", "p2"}

\* the event ids of the histories with queries
QueryEventIds == {"e1", "e2"}

\* the users of the histories with queries
QueryUserIds == {"a", "b"}

\* the scan pages a store answers list_all with
MaxPages == 3

\* the items the scanned table may hold: two events, a user's profile and a
\* registration record
ScanEventIds == {"e1", "e2"}

ScanItemIds == ScanEventIds \cup {"profile", "registration"}

\* the values of the attribute status of the stored events
ScanStatuses == {"active", "cancelled"}

\* the values of status_filter: "None" stands for Python's None (the query
\* parameter is absent), "" is the parameter given empty
StatusFilters == {"None", "", "active", "cancelled"}

(* ------------------------------ strings ------------------------------- *)

\* character codes of the user ids
UserChars ==
  [u \in UserIds |-> CASE u = "a" -> <<97>> [] u = "b" -> <<98>> [] OTHER -> <<99>>]

HASH == 35

DOT == 46

Digit(n) == 48 + n

\* character codes of the event ids
EventChars == [e \in QueryEventIds |-> IF e = "e1" THEN <<101, 49>> ELSE <<101, 50>>]

\* "WAITLIST#"
WAITLIST_PREFIX == <<87, 65, 73, 84, 76, 73, 83, 84, HASH>>

\* datetime.isoformat(): the whole seconds, then "." and the fraction only
\* when the fraction is not zero
isoformat(t) ==
  LET secs == t \div TicksPerSecond
      frac == t % TicksPerSecond
  IN  IF frac = 0 THEN <<Digit(secs)>> ELSE <<Digit(secs), DOT, Digit(frac)>>

\* f'WAITLIST#{timestamp}#{user_id}'
waitlist_sk(t, u) == WAITLIST_PREFIX \o isoformat(t) \o <<HASH>> \o UserChars[u]

\* the store's order of sort keys: byte-wise lexicographic
SortKeyLess(a, b) ==
  \E i \in 1..(Len(a) + 1) :
    /\ i <= Len(b)
    /\ \A j \in 1..(i - 1) : a[j] = b[j]
    /\ (i = Len(a) + 1 \/ a[i] < b[i])

(* ------------------------------- state -------------------------------- *)

VARIABLES
  table,   \* the items of the DynamoDB table
  now,     \* the latest reading of the wall clock, in ticks
  result,  \* what the last handler returned or raised
  calls    \* per worker, the call it serves: its position and its locals

vars == <<table, now, result, calls>>

NoItem == [absent |-> TRUE]

Pairs == UserIds \X EventIds

NoResult == [op |-> "none", outcome |-> "-", status |-> "-"]

\* op: the handler; outcome: "ok" or the exception raised; status: the
\* registrationStatus of the registration a successful register_user returns,
\* or the resource that the message of a ResourceNotFoundError names
Response(op, outcome, status) == [op |-> op, outcome |-> outcome, status |-> status]

\* a worker that serves no call
IdleCall ==
  [op |-> "idle", pc |-> "idle", userId |-> "-", eventId |-> "-", name |-> "-",
   event |-> NoItem, entry |-> NoItem, ts |-> 0, status |-> "-", outcome |-> "-",
   served |-> 0]

Init ==
  /\ table = [users    |-> [u \in UserIds |-> NoItem],
              events   |-> [e \in EventIds |-> NoItem],
              byUser   |-> [p \in Pairs |-> NoItem],
              byEvent  |-> [p \in Pairs |-> NoItem],
              waitlist |-> {}]
  /\ now = 0
  /\ result = NoResult
  /\ calls = [p \in Procs |-> IdleCall]

(* ---------------------------- repositories ---------------------------- *)

\* an item written by create_registration carries every field; an item that
\* update_item created on an absent key carries registrationStatus only
HasAllFields(item) == "userId" \in DOMAIN item

\* increment_registrations whose update is lost
increment_registrations_lost(t, e) == t

\* increment_registrations that adds nothing once the counter has reached the
\* capacity
increment_registrations_conditional(t, e) ==
  IF t.events[e].currentRegistrations >= t.events[e].capacity THEN t
  ELSE [t EXCEPT !.events[e].currentRegistrations = @ + 1]

\* EventRepository.increment_registrations
increment_registrations(t, e) ==
  [t EXCEPT !.events[e].currentRegistrations = @ + 1]

\* EventRepository.decrement_registrations
decrement_registrations(t, e) ==
  [t EXCEPT !.events[e].currentRegistrations = @ - 1]

\* add_to_waitlist with the put_item left out
add_to_waitlist_no_put(t, u, e, ts) == t

\* RegistrationRepository.add_to_waitlist
add_to_waitlist(t, u, e, ts) ==
  [t EXCEPT !.waitlist = @ \cup {[eventId |-> e, addedAt |-> ts, userId |-> u]}]

RegistrationItem(u, e, status) ==
  [userId |-> u, eventId |-> e, registrationStatus |-> status]

\* RegistrationRepository.create_registration: two put_item calls
create_registration(t, u, e, status) ==
  [t EXCEPT !.byUser[<<u, e>>]  = RegistrationItem(u, e, status),
            !.byEvent[<<u, e>>] = RegistrationItem(u, e, status)]

\* delete_registration with the second delete_item left out
delete_registration_by_user_only(t, u, e) == [t EXCEPT !.byUser[<<u, e>>] = NoItem]

\* delete_registration with the first delete_item left out
delete_registration_by_event_only(t, u, e) == [t EXCEPT !.byEvent[<<u, e>>] = NoItem]

\* RegistrationRepository.delete_registration: two delete_item calls
delete_registration(t, u, e) ==
  [t EXCEPT !.byUser[<<u, e>>] = NoItem, !.byEvent[<<u, e>>] = NoItem]

\* update_item with SET registrationStatus = :status; DynamoDB creates the
\* item when the key is absent
SetStatus(item, status) ==
  IF item = NoItem THEN [registrationStatus |-> status]
  ELSE [item EXCEPT !.registrationStatus = status]

\* update_registration_status with both update_item calls left out
update_registration_status_skipped(t, u, e, status) == t

\* RegistrationRepository.update_registration_status: two update_item calls
update_registration_status(t, u, e, status) ==
  [t EXCEPT !.byUser[<<u, e>>]  = SetStatus(@, status),
            !.byEvent[<<u, e>>] = SetStatus(@, status)]

\* the waitlist entries under EVENT#e
WaitlistOf(t, e) == {w \in t.waitlist : w.eventId = e}

\* get_first_waitlisted with the query reading the sort keys in descending
\* order
get_first_waitlisted_descending(t, e) ==
  IF WaitlistOf(t, e) = {} THEN NoItem
  ELSE CHOOSE w \in WaitlistOf(t, e) :
         \A x \in WaitlistOf(t, e) \ {w} :
           SortKeyLess(waitlist_sk(x.addedAt, x.userId), waitlist_sk(w.addedAt, w.userId))

\* get_first_waitlisted with the partition key left out of the query: the
\* first entry of any event
get_first_waitlisted_any_event(t, e) ==
  IF t.waitlist = {} THEN NoItem
  ELSE CHOOSE w \in t.waitlist :
         \A x \in t.waitlist \ {w} :
           \/ SortKeyLess(waitlist_sk(w.addedAt, w.userId), waitlist_sk(x.addedAt, x.userId))
           \/ /\ waitlist_sk(w.addedAt, w.userId) = waitlist_sk(x.addedAt, x.userId)
              /\ SortKeyLess(EventChars[w.eventId], EventChars[x.eventId])

\* RegistrationRepository.get_first_waitlisted: query begins_with WAITLIST#,
\* ascending sort key, Limit=1
get_first_waitlisted(t, e) ==
  IF WaitlistOf(t, e) = {} THEN NoItem
  ELSE CHOOSE w \in WaitlistOf(t, e) :
         \A x \in WaitlistOf(t, e) \ {w} :
           SortKeyLess(waitlist_sk(w.addedAt, w.userId), waitlist_sk(x.addedAt, x.userId))

\* remove_from_waitlist with the delete_item left out
remove_from_waitlist_no_delete(t, w) == t

\* RegistrationRepository.remove_from_waitlist
remove_from_waitlist(t, w) == [t EXCEPT !.waitlist = @ \ {w}]

(* ------------------------------ handlers ------------------------------ *)

\* create_user with a put_item that carries no ConditionExpression
create_user_unconditional(u, name) ==
  /\ table' = [table EXCEPT !.users[u] = [name |-> name]]
  /\ result' = Response("create_user", "ok", "-")
  /\ UNCHANGED now

\* UserService.create_user / UserRepository.create: conditional put
create_user(u, name) ==
  /\ IF table.users[u] # NoItem
     THEN /\ result' = Response("create_user", "ResourceAlreadyExistsError", "-")
          /\ UNCHANGED table
     ELSE /\ table' = [table EXCEPT !.users[u] = [name |-> name]]
          /\ result' = Response("create_user", "ok", "-")
  /\ UNCHANGED now

\* EventService.create_event / EventRepository.create with an eventId in the
\* request: unconditional put, currentRegistrations = 0
create_event(e, capacity, waitlistEnabled) ==
  /\ table' = [table EXCEPT !.events[e] =
                 [capacity |-> capacity, currentRegistrations |-> 0,
                  waitlistEnabled |-> waitlistEnabled]]
  /\ result' = Response("create_event", "ok", "-")
  /\ UNCHANGED now

\* a request that generates its eventId (uuid4) gets an id no item refers to
Unused(e) ==
  /\ table.events[e] = NoItem
  /\ \A u \in UserIds : table.byUser[<<u, e>>] = NoItem /\ table.byEvent[<<u, e>>] = NoItem
  /\ WaitlistOf(table, e) = {}

\* EventService.create_event without an eventId in the request
create_event_uuid(capacity, waitlistEnabled) ==
  \E e \in DOMAIN table.events : Unused(e) /\ create_event(e, capacity, waitlistEnabled)

\* update_event without the get_by_id of EventRepository.update: update_item
\* creates the item when the key is absent
update_event_no_lookup(e, capacity, waitlistEnabled) ==
  /\ IF capacity = 0 /\ waitlistEnabled = "unset"
     THEN /\ result' = Response("update_event", "HTTP_400_BAD_REQUEST", "-")
          /\ UNCHANGED table
     ELSE /\ table' = [table EXCEPT !.events[e] =
                         [capacity |-> IF capacity # 0 THEN capacity
                                       ELSE IF @ = NoItem THEN 1 ELSE @.capacity,
                          currentRegistrations |->
                            IF @ = NoItem THEN 0 ELSE @.currentRegistrations,
                          waitlistEnabled |->
                            IF waitlistEnabled # "unset" THEN waitlistEnabled = "true"
                            ELSE IF @ = NoItem THEN FALSE ELSE @.waitlistEnabled]]
          /\ result' = Response("update_event", "ok", "-")
  /\ UNCHANGED now

\* routes.events.update_event / EventService.update_event /
\* EventRepository.update; capacity = 0 and waitlistEnabled = "unset" stand
\* for a field the request does not carry
update_event(e, capacity, waitlistEnabled) ==
  LET Fail(x) == /\ result' = Response("update_event", x, "-")
                 /\ UNCHANGED table
  IN
  /\ IF capacity = 0 /\ waitlistEnabled = "unset" THEN Fail("HTTP_400_BAD_REQUEST")
     ELSE IF table.events[e] = NoItem
       THEN /\ result' = Response("update_event", "ResourceNotFoundError", "Event")
            /\ UNCHANGED table
     ELSE /\ table' = [table EXCEPT
                         !.events[e].capacity = IF capacity = 0 THEN @ ELSE capacity,
                         !.events[e].waitlistEnabled =
                           IF waitlistEnabled = "unset" THEN @ ELSE (waitlistEnabled = "true")]
          /\ result' = Response("update_event", "ok", "-")
  /\ UNCHANGED now

\* delete_event that also deletes the registrations and the waitlist of the
\* event
delete_event_cascade(e) ==
  /\ IF table.events[e] = NoItem
     THEN /\ result' = Response("delete_event", "ResourceNotFoundError", "Event")
          /\ UNCHANGED table
     ELSE /\ table' = [table EXCEPT
                         !.events[e] = NoItem,
                         !.byUser = [p \in DOMAIN @ |-> IF p[2] = e THEN NoItem ELSE @[p]],
                         !.byEvent = [p \in DOMAIN @ |-> IF p[2] = e THEN NoItem ELSE @[p]],
                         !.waitlist = {w \in @ : w.eventId # e}]
          /\ result' = Response("delete_event", "ok", "-")
  /\ UNCHANGED now

\* EventService.delete_event / EventRepository.delete
delete_event(e) ==
  /\ IF table.events[e] = NoItem
     THEN /\ result' = Response("delete_event", "ResourceNotFoundError", "Event")
          /\ UNCHANGED table
     ELSE /\ table' = [table EXCEPT !.events[e] = NoItem]
          /\ result' = Response("delete_event", "ok", "-")
  /\ UNCHANGED now

\* the capacity check with > in place of >=
AtCapacity_strict(event) == event.currentRegistrations > event.capacity

\* the capacity check of register_user
AtCapacity(event) == event.currentRegistrations >= event.capacity

\* register_user without its lookups: it writes the registration
register_user_no_lookup(u, e) ==
  \E ts \in now..MaxClock :
    /\ now' = ts
    /\ table' = create_registration(table, u, e, "registered")
    /\ result' = Response("register_user", "ok", "registered")

\* RegistrationService.register_user; ts is what get_timestamp() returns, read
\* once the call has passed its checks
register_user(u, e) ==
  LET user     == table.users[u]
      event    == table.events[e]
      existing == table.byUser[<<u, e>>]
      Fail(x)  == /\ result' = Response("register_user", x, "-")
                  /\ UNCHANGED <<table, now>>
      NotFound(resource) ==
                  /\ result' = Response("register_user", "ResourceNotFoundError", resource)
                  /\ UNCHANGED <<table, now>>
  IN
  IF user = NoItem THEN NotFound("User")
  ELSE IF event = NoItem THEN NotFound("Event")
  ELSE IF existing # NoItem /\ ~HasAllFields(existing) THEN Fail("KeyError")
  ELSE IF existing # NoItem THEN Fail("ResourceAlreadyExistsError")
  ELSE IF AtCapacity(event) /\ ~event.waitlistEnabled THEN Fail("CapacityExceededError")
  ELSE \E ts \in now..MaxClock :
         /\ now' = ts
         /\ IF AtCapacity(event)
            THEN /\ table' = create_registration(add_to_waitlist(table, u, e, ts),
                                                 u, e, "waitlisted")
                 /\ result' = Response("register_user", "ok", "waitlisted")
            ELSE /\ table' = create_registration(increment_registrations(table, e),
                                                 u, e, "registered")
                 /\ result' = Response("register_user", "ok", "registered")

\* unregister_user with the promotion branch left out
Promote_skipped(t, e) == t

\* the promotion branch of unregister_user, after the decrement
Promote(t, e) ==
  LET waitlist_entry == get_first_waitlisted(t, e)
  IN  IF waitlist_entry = NoItem THEN t
      ELSE increment_registrations(
             remove_from_waitlist(
               update_registration_status(t, waitlist_entry.userId, e, "registered"),
               waitlist_entry),
             e)

\* unregister_user without its lookup: it deletes and returns
unregister_user_no_lookup(u, e) ==
  /\ table' = delete_registration(table, u, e)
  /\ result' = Response("unregister_user", "ok", "-")
  /\ UNCHANGED now

\* RegistrationService.unregister_user
unregister_user(u, e) ==
  LET registration == table.byUser[<<u, e>>]
      Fail(x)      == /\ result' = Response("unregister_user", x, "-")
                      /\ UNCHANGED table
  IN
  /\ IF registration = NoItem
       THEN /\ result' = Response("unregister_user", "ResourceNotFoundError", "Registration")
            /\ UNCHANGED table
     ELSE IF ~HasAllFields(registration) THEN Fail("KeyError")
     ELSE IF registration.registrationStatus = "registered"
       THEN IF table.events[e] = NoItem THEN Fail("RepositoryError")
            ELSE /\ table' = delete_registration(
                               Promote(decrement_registrations(table, e), e), u, e)
                 /\ result' = Response("unregister_user", "ok", "-")
       ELSE /\ table' = delete_registration(table, u, e)
            /\ result' = Response("unregister_user", "ok", "-")
  /\ UNCHANGED now

(* ------------------------- handlers of main.py ------------------------ *)

\* main.register_user_for_event with the timestamp it reads: the table after
\* the call and the response
register_user_for_event(t, u, e, timestamp) ==
  LET event == t.events[e]
      Raise(code, detail) ==
        [table |-> t, response |-> Response("main.register_user", code, detail)]
  IN
  IF t.users[u] = NoItem THEN Raise("HTTP_404_NOT_FOUND", "User")
  ELSE IF event = NoItem THEN Raise("HTTP_404_NOT_FOUND", "Event")
  ELSE IF t.byUser[<<u, e>>] # NoItem THEN Raise("HTTP_409_CONFLICT", "already registered")
  ELSE IF event.currentRegistrations >= event.capacity
    THEN IF ~event.waitlistEnabled THEN Raise("HTTP_409_CONFLICT", "full capacity")
         ELSE [table    |-> create_registration(add_to_waitlist(t, u, e, timestamp),
                                                u, e, "waitlisted"),
               response |-> Response("main.register_user", "ok", "waitlisted")]
  ELSE [table    |-> create_registration(increment_registrations(t, e), u, e, "registered"),
        response |-> Response("main.register_user", "ok", "registered")]

\* main.unregister_user_from_event: the table after the call and the response
unregister_user_from_event(t, u, e) ==
  LET registration == t.byUser[<<u, e>>] IN
  IF registration = NoItem
    THEN [table |-> t,
          response |-> Response("main.unregister_user", "HTTP_404_NOT_FOUND", "Registration")]
  ELSE IF registration.registrationStatus = "registered"
    THEN IF t.events[e] = NoItem
         THEN [table |-> t,
               response |-> Response("main.unregister_user",
                                     "HTTP_500_INTERNAL_SERVER_ERROR", "-")]
         ELSE [table    |-> delete_registration(Promote(decrement_registrations(t, e), e), u, e),
               response |-> Response("main.unregister_user", "ok", "-")]
  ELSE [table    |-> delete_registration(t, u, e),
        response |-> Response("main.unregister_user", "ok", "-")]

\* POST /registrations served by main.py
main_register_user_for_event(u, e) ==
  \E timestamp \in now..MaxClock :
    LET call == register_user_for_event(table, u, e, timestamp) IN
    /\ table' = call.table
    /\ result' = call.response
    /\ now' = IF call.response.outcome = "ok" THEN timestamp ELSE now

\* DELETE /registrations/{user_id}/{event_id} served by main.py
main_unregister_user_from_event(u, e) ==
  LET call == unregister_user_from_event(table, u, e) IN
  /\ table' = call.table
  /\ result' = call.response
  /\ UNCHANGED now

\* the outcome kind of a response of either application: the exceptions of
\* the service as the routes turn them into status codes, and the two
\* conflicts of main.py told apart by their detail
OutcomeKind(response) ==
  IF response.outcome = "ok" THEN <<"success", response.status>>
  ELSE IF response.outcome \in {"ResourceNotFoundError", "HTTP_404_NOT_FOUND"}
    THEN <<"NotFound", "-">>
  ELSE IF \/ response.outcome = "ResourceAlreadyExistsError"
          \/ response.outcome = "HTTP_409_CONFLICT" /\ response.status = "already registered"
    THEN <<"AlreadyExists", "-">>
  ELSE IF \/ response.outcome = "CapacityExceededError"
          \/ response.outcome = "HTTP_409_CONFLICT" /\ response.status = "full capacity"
    THEN <<"CapacityExceeded", "-">>
  ELSE IF response.outcome \in {"RepositoryError", "HTTP_500_INTERNAL_SERVER_ERROR"}
    THEN <<"StoreFailure", "-">>
  ELSE <<response.outcome, "-">>

(* ------------------------------ queries ------------------------------- *)

\* the keys of S in the order in which a query returns their items:
\* ascending by sort key
RECURSIVE Ascending(_, _)
Ascending(S, chars) ==
  IF S = {} THEN <<>>
  ELSE LET first == CHOOSE x \in S : \A y \in S \ {x} : SortKeyLess(chars[x], chars[y])
       IN  <<first>> \o Ascending(S \ {first}, chars)

\* what a handler that lists items returns
Listing(op, items) == [op |-> op, outcome |-> "ok", status |-> "-", items |-> items]

\* RegistrationRepository.list_user_registrations: query PK = USER#u,
\* begins_with(SK, 'EVENT#'); building a DomainRegistration reads
\* item['userId'], which an item that update_item created does not carry
list_user_registrations(t, u) ==
  LET keys  == Ascending({e \in DOMAIN t.events : t.byUser[<<u, e>>] # NoItem}, EventChars)
      items == [i \in 1..Len(keys) |-> t.byUser[<<u, keys[i]>>]]
  IN  IF \E i \in 1..Len(keys) : ~HasAllFields(items[i])
      THEN [error |-> "KeyError", items |-> <<>>]
      ELSE [error |-> "-", items |-> items]

\* RegistrationRepository.list_event_registrations: query PK = EVENT#e,
\* begins_with(SK, 'REGISTRATION#')
list_event_registrations(t, e) ==
  LET keys  == Ascending({u \in UserIds : t.byEvent[<<u, e>>] # NoItem}, UserChars)
      items == [i \in 1..Len(keys) |-> t.byEvent[<<keys[i], e>>]]
  IN  IF \E i \in 1..Len(keys) : ~HasAllFields(items[i])
      THEN [error |-> "KeyError", items |-> <<>>]
      ELSE [error |-> "-", items |-> items]

\* the DomainEvent that EventRepository.get_by_id builds from the item
DomainEvent(t, e) == [eventId |-> e] @@ t.events[e]

\* RegistrationService.get_user_events
get_user_events(u) ==
  LET registrations == list_user_registrations(table, u)
      IsRegistered(reg) == reg.registrationStatus = "registered"
      registered == SelectSeq(registrations.items, IsRegistered)
      Exists(reg) == table.events[reg.eventId] # NoItem
      found == SelectSeq(registered, Exists)
  IN
  /\ result' = IF registrations.error # "-"
               THEN Response("get_user_events", registrations.error, "-")
               ELSE Listing("get_user_events",
                            [i \in 1..Len(found) |-> DomainEvent(table, found[i].eventId)])
  /\ UNCHANGED <<table, now>>

\* RegistrationService.get_event_registrations
get_event_registrations(e) ==
  LET registrations == list_event_registrations(table, e)
  IN
  /\ result' = IF registrations.error # "-"
               THEN Response("get_event_registrations", registrations.error, "-")
               ELSE Listing("get_event_registrations", registrations.items)
  /\ UNCHANGED <<table, now>>

(* ------------------------------ list_all ------------------------------ *)

\* the stored item of an id: an event under SK METADATA, a user under SK
\* PROFILE, a by-event registration record
ScanItem(id, statuses) ==
  IF id \in ScanEventIds
    THEN [PK |-> id, SK |-> "METADATA", eventId |-> id, status |-> statuses[id]]
  ELSE IF id = "profile" THEN [PK |-> "a", SK |-> "PROFILE"]
  ELSE [PK |-> "e1", SK |-> "REGISTRATION#a", registrationStatus |-> "registered"]

\* the items of one page, in the order the store hands them out
RECURSIVE PageOf(_)
PageOf(S) ==
  IF S = {} THEN <<>>
  ELSE LET item == CHOOSE x \in S : TRUE IN <<item>> \o PageOf(S \ {item})

\* the FilterExpression list_all hands to scan: `if status_filter:` is false
\* for None and for the empty string
FilterExpression(status_filter, item) ==
  IF status_filter \notin {"None", ""}
  THEN item.SK = "METADATA" /\ "status" \in DOMAIN item /\ item.status = status_filter
  ELSE item.SK = "METADATA"

\* table.scan: the page after the ExclusiveStartKey (0: from the start), its
\* items filtered, and the LastEvaluatedKey (0: none, this was the last page)
scan(t, ExclusiveStartKey, status_filter) ==
  LET Matches(item) == FilterExpression(status_filter, item) IN
  [Items            |-> SelectSeq(t.pages[ExclusiveStartKey + 1], Matches),
   LastEvaluatedKey |-> IF ExclusiveStartKey + 1 < Len(t.pages)
                        THEN ExclusiveStartKey + 1 ELSE 0]

\* list_all, lines 116-128: while the response holds a LastEvaluatedKey, scan
\* again from it and extend items
RECURSIVE scan_pages(_, _, _)
scan_pages(t, response, status_filter) ==
  IF response.LastEvaluatedKey = 0 THEN <<>>
  ELSE LET next == scan(t, response.LastEvaluatedKey, status_filter) IN
       next.Items \o scan_pages(t, next, status_filter)

\* EventRepository.list_all: the first scan, the pages after it, and a
\* DomainEvent for each item
list_all(status_filter) ==
  LET response == scan(table, 0, status_filter)
      items    == response.Items \o scan_pages(table, response, status_filter)
  IN
  /\ result' = Listing("list_all",
                        [i \in 1..Len(items) |->
                           [eventId |-> items[i].eventId, status |-> items[i].status]])
  /\ UNCHANGED <<table, now, calls>>

(* --------------------------- concurrent calls ------------------------- *)

\* the worker serves a call that has not returned yet
InFlight(p) == calls[p].pc \notin {"idle", "done"}

\* a request goes to the first worker that is free, so the call of p2 always
\* overlaps the call p1 holds; the records of returned calls are dropped when
\* a call starts with no other call in flight
CanBegin(p) ==
  /\ ~InFlight(p)
  /\ p = "p2" => InFlight("p1")
  /\ calls["p1"].served + calls["p2"].served < MaxCalls

\* result holds the response of the last handler that ran as one action, and
\* nothing once calls are served by the workers
Begin(p, call) ==
  /\ calls' = [q \in Procs |->
                 IF q = p THEN [call EXCEPT !.served = calls[p].served + 1]
                 ELSE IF InFlight(q) THEN calls[q]
                 ELSE [IdleCall EXCEPT !.served = calls[q].served]]
  /\ result' = NoResult

NewCall(op, u, e, name, pc) ==
  [IdleCall EXCEPT !.op = op, !.userId = u, !.eventId = e, !.name = name, !.pc = pc]

\* the call returns or raises: its locals are gone
Return(call, outcome, status) ==
  [call EXCEPT !.pc = "done", !.outcome = outcome, !.status = status,
               !.event = NoItem, !.entry = NoItem, !.ts = 0]

\* put_user with the ConditionExpression left out
put_user_unconditional(t, u, name) ==
  [table |-> [t EXCEPT !.users[u] = [name |-> name]], error |-> "-"]

\* the put_item of UserRepository.create and of main.create_user:
\* ConditionExpression attribute_not_exists(PK); the table after the call and
\* the ClientError code it raises
put_user(t, u, name) ==
  IF t.users[u] = NoItem
  THEN [table |-> [t EXCEPT !.users[u] = [name |-> name]], error |-> "-"]
  ELSE [table |-> t, error |-> "ConditionalCheckFailedException"]

\* UserService.create_user as a call: its one store call
call_create_user(p, u, name) ==
  LET put == put_user(table, u, name) IN
  /\ CanBegin(p)
  /\ table' = put.table
  /\ Begin(p, Return(NewCall("create_user", u, "-", name, "put_item"),
                     IF put.error = "-" THEN "ok" ELSE "ResourceAlreadyExistsError",
                     "-"))
  /\ UNCHANGED now

\* main.create_user: the get_item that looks for the user
main_create_user_get_item(p, u, name) ==
  /\ CanBegin(p)
  /\ Begin(p, IF table.users[u] # NoItem
              THEN Return(NewCall("main.create_user", u, "-", name, "get_item"),
                          "HTTP_409_CONFLICT", "-")
              ELSE NewCall("main.create_user", u, "-", name, "put_item"))
  /\ UNCHANGED <<table, now>>

\* main.create_user: the conditional put_item
main_create_user_put_item(p) ==
  LET call == calls[p]
      put == put_user(table, call.userId, call.name) IN
  /\ call.op = "main.create_user" /\ call.pc = "put_item"
  /\ table' = put.table
  /\ calls' = [calls EXCEPT ![p] =
                 Return(call, IF put.error = "-" THEN "ok" ELSE "HTTP_409_CONFLICT", "-")]
  /\ UNCHANGED <<now, result>>

\* register_user, line 30: user_repo.get_by_id
register_get_user(p, u, e) ==
  /\ CanBegin(p)
  /\ Begin(p, IF table.users[u] = NoItem
              THEN Return(NewCall("register_user", u, e, "-", "get_user"),
                          "ResourceNotFoundError", "User")
              ELSE NewCall("register_user", u, e, "-", "get_event"))
  /\ UNCHANGED <<table, now>>

\* register_user, line 35: event_repo.get_by_id; the call keeps what it read
register_get_event(p) ==
  LET call == calls[p] IN
  /\ call.op = "register_user" /\ call.pc = "get_event"
  /\ calls' = [calls EXCEPT ![p] =
                 IF table.events[call.eventId] = NoItem
                 THEN Return(call, "ResourceNotFoundError", "Event")
                 ELSE [call EXCEPT !.pc = "get_registration",
                                   !.event = table.events[call.eventId]]]
  /\ UNCHANGED <<table, now, result>>

\* register_user, lines 40-52: registration_repo.get_registration, then the
\* clock and the capacity check on the event as the call read it
register_get_registration(p) ==
  LET call     == calls[p]
      existing == table.byUser[<<call.userId, call.eventId>>]
      Raise(x) == /\ calls' = [calls EXCEPT ![p] = Return(call, x, "-")]
                  /\ UNCHANGED now
  IN
  /\ call.op = "register_user" /\ call.pc = "get_registration"
  /\ IF existing # NoItem /\ ~HasAllFields(existing) THEN Raise("KeyError")
     ELSE IF existing # NoItem THEN Raise("ResourceAlreadyExistsError")
     ELSE IF AtCapacity(call.event) /\ ~call.event.waitlistEnabled
       THEN Raise("CapacityExceededError")
     ELSE \E ts \in now..MaxClock :
            /\ now' = ts
            /\ calls' = [calls EXCEPT ![p] =
                 IF AtCapacity(call.event)
                 THEN [call EXCEPT !.pc = "add_to_waitlist", !.status = "waitlisted",
                                   !.ts = ts, !.event = NoItem]
                 ELSE [call EXCEPT !.pc = "increment_registrations",
                                   !.status = "registered", !.event = NoItem]]
  /\ UNCHANGED <<table, result>>

\* register_user, line 53
register_add_to_waitlist(p) ==
  LET call == calls[p] IN
  /\ call.op = "register_user" /\ call.pc = "add_to_waitlist"
  /\ table' = add_to_waitlist(table, call.userId, call.eventId, call.ts)
  /\ calls' = [calls EXCEPT ![p] = [call EXCEPT !.pc = "put_by_user", !.ts = 0]]
  /\ UNCHANGED <<now, result>>

\* register_user, line 55, and unregister_user, line 92: update_item fails on
\* an event that is gone (currentRegistrations is not there to add to)
call_increment_registrations(p) ==
  LET call == calls[p] IN
  /\ call.pc = "increment_registrations"
  /\ IF table.events[call.eventId] = NoItem
     THEN /\ calls' = [calls EXCEPT ![p] = Return(call, "RepositoryError", "-")]
          /\ UNCHANGED table
     ELSE /\ table' = increment_registrations(table, call.eventId)
          /\ calls' = [calls EXCEPT ![p] =
                         [call EXCEPT !.entry = NoItem,
                                      !.pc = IF call.op = "register_user"
                                             THEN "put_by_user" ELSE "delete_by_user"]]
  /\ UNCHANGED <<now, result>>

\* create_registration, lines 29-38: the by-user put_item
register_put_by_user(p) ==
  LET call == calls[p] IN
  /\ call.op = "register_user" /\ call.pc = "put_by_user"
  /\ table' = [table EXCEPT !.byUser[<<call.userId, call.eventId>>] =
                 RegistrationItem(call.userId, call.eventId, call.status)]
  /\ calls' = [calls EXCEPT ![p].pc = "put_by_event"]
  /\ UNCHANGED <<now, result>>

\* create_registration, lines 41-50: the by-event put_item; the call returns
register_put_by_event(p) ==
  LET call == calls[p] IN
  /\ call.op = "register_user" /\ call.pc = "put_by_event"
  /\ table' = [table EXCEPT !.byEvent[<<call.userId, call.eventId>>] =
                 RegistrationItem(call.userId, call.eventId, call.status)]
  /\ calls' = [calls EXCEPT ![p] = Return(call, "ok", call.status)]
  /\ UNCHANGED <<now, result>>

\* unregister_user, lines 69-73: registration_repo.get_registration
unregister_get_registration(p, u, e) ==
  LET registration == table.byUser[<<u, e>>]
      call(pc)     == NewCall("unregister_user", u, e, "-", pc)
  IN
  /\ CanBegin(p)
  /\ Begin(p, IF registration = NoItem
                THEN Return(call("get_registration"), "ResourceNotFoundError", "Registration")
              ELSE IF ~HasAllFields(registration)
                THEN Return(call("get_registration"), "KeyError", "-")
              ELSE IF registration.registrationStatus = "registered"
                THEN call("decrement_registrations")
              ELSE call("delete_by_user"))
  /\ UNCHANGED <<table, now>>

\* unregister_user, line 74
unregister_decrement_registrations(p) ==
  LET call == calls[p] IN
  /\ call.op = "unregister_user" /\ call.pc = "decrement_registrations"
  /\ IF table.events[call.eventId] = NoItem
     THEN /\ calls' = [calls EXCEPT ![p] = Return(call, "RepositoryError", "-")]
          /\ UNCHANGED table
     ELSE /\ table' = decrement_registrations(table, call.eventId)
          /\ calls' = [calls EXCEPT ![p].pc = "get_first_waitlisted"]
  /\ UNCHANGED <<now, result>>

\* unregister_user, lines 76-78: the call keeps the entry it read
unregister_get_first_waitlisted(p) ==
  LET call           == calls[p]
      waitlist_entry == get_first_waitlisted(table, call.eventId)
  IN
  /\ call.op = "unregister_user" /\ call.pc = "get_first_waitlisted"
  /\ calls' = [calls EXCEPT ![p] =
                 IF waitlist_entry = NoItem THEN [call EXCEPT !.pc = "delete_by_user"]
                 ELSE [call EXCEPT !.pc = "update_by_user", !.entry = waitlist_entry]]
  /\ UNCHANGED <<table, now, result>>

\* update_registration_status, lines 261-268: the by-user update_item
unregister_update_by_user(p) ==
  LET call == calls[p] IN
  /\ call.op = "unregister_user" /\ call.pc = "update_by_user"
  /\ table' = [table EXCEPT !.byUser[<<call.entry.userId, call.eventId>>] =
                 SetStatus(@, "registered")]
  /\ calls' = [calls EXCEPT ![p].pc = "update_by_event"]
  /\ UNCHANGED <<now, result>>

\* update_registration_status, lines 271-278: the by-event update_item
unregister_update_by_event(p) ==
  LET call == calls[p] IN
  /\ call.op = "unregister_user" /\ call.pc = "update_by_event"
  /\ table' = [table EXCEPT !.byEvent[<<call.entry.userId, call.eventId>>] =
                 SetStatus(@, "registered")]
  /\ calls' = [calls EXCEPT ![p].pc = "remove_from_waitlist"]
  /\ UNCHANGED <<now, result>>

\* unregister_user, lines 87-90
unregister_remove_from_waitlist(p) ==
  LET call == calls[p] IN
  /\ call.op = "unregister_user" /\ call.pc = "remove_from_waitlist"
  /\ table' = remove_from_waitlist(table, call.entry)
  /\ calls' = [calls EXCEPT ![p].pc = "increment_registrations"]
  /\ UNCHANGED <<now, result>>

\* delete_registration, lines 102-107: the by-user delete_item
unregister_delete_by_user(p) ==
  LET call == calls[p] IN
  /\ call.op = "unregister_user" /\ call.pc = "delete_by_user"
  /\ table' = [table EXCEPT !.byUser[<<call.userId, call.eventId>>] = NoItem]
  /\ calls' = [calls EXCEPT ![p].pc = "delete_by_event"]
  /\ UNCHANGED <<now, result>>

\* delete_registration, lines 110-115: the by-event delete_item; the call
\* returns
unregister_delete_by_event(p) ==
  LET call == calls[p] IN
  /\ call.op = "unregister_user" /\ call.pc = "delete_by_event"
  /\ table' = [table EXCEPT !.byEvent[<<call.userId, call.eventId>>] = NoItem]
  /\ calls' = [calls EXCEPT ![p] = Return(call, "ok", "-")]
  /\ UNCHANGED <<now, result>>

\* the store call a call in flight is about to make raises ClientError, and
\* the engine undoes what the call wrote: the counter goes back
store_call_fails_compensated(p) ==
  LET call == calls[p] IN
  /\ InFlight(p)
  /\ table' = IF call.op = "register_user" /\ call.pc = "put_by_user"
                  /\ call.status = "registered"
               THEN decrement_registrations(table, call.eventId)
               ELSE table
  /\ calls' = [calls EXCEPT ![p] = Return(call, "RepositoryError", "-")]
  /\ UNCHANGED <<now, result>>

\* the store call a call in flight is about to make raises ClientError: the
\* repository method raises RepositoryError, which neither the repository nor
\* the service catches, so the call ends with the table as the failed store
\* call found it
store_call_fails(p) ==
  /\ InFlight(p)
  /\ table' = table
  /\ calls' = [calls EXCEPT ![p] = Return(calls[p], "RepositoryError", "-")]
  /\ UNCHANGED <<now, result>>

\* the first store call of register_user (user_repo.get_by_id) or of
\* unregister_user (registration_repo.get_registration) raises ClientError
first_store_call_fails(p, op, u, e) ==
  /\ CanBegin(p)
  /\ Begin(p, Return(NewCall(op, u, e, "-",
                              IF op = "register_user" THEN "get_user"
                              ELSE "get_registration"),
                      "RepositoryError", "-"))
  /\ UNCHANGED <<table, now>>

\* the bound on the waitlist: a call that would add an entry is taken only
\* while the event holds fewer than limit entries
WaitlistRoom(u, e, limit) ==
  (/\ table.users[u] # NoItem
   /\ table.events[e] # NoItem
   /\ table.byUser[<<u, e>>] = NoItem
   /\ AtCapacity(table.events[e])
   /\ table.events[e].waitlistEnabled)
  => Cardinality(WaitlistOf(table, e)) < limit

Next ==
  \/ \E u \in UserIds, name \in Names : create_user(u, name) /\ UNCHANGED calls
  \/ \E e \in EventIds, c \in 1..MaxCapacity, w \in BOOLEAN :
       create_event(e, c, w) /\ UNCHANGED calls
  \/ \E e \in EventIds, c \in 0..MaxCapacity, w \in {"unset", "true", "false"} :
       update_event(e, c, w) /\ UNCHANGED calls
  \/ \E e \in EventIds : delete_event(e) /\ UNCHANGED calls
  \/ \E u \in UserIds, e \in EventIds :
       WaitlistRoom(u, e, MaxWaitlist) /\ register_user(u, e) /\ UNCHANGED calls
  \/ \E u \in UserIds, e \in EventIds : unregister_user(u, e) /\ UNCHANGED calls

Spec == Init /\ [][Next]_vars

\* histories of the engine alone: every event is created once, under a
\* generated id, and never updated or deleted
NextEngine ==
  \/ \E u \in UserIds, name \in Names : create_user(u, name) /\ UNCHANGED calls
  \/ \E c \in 1..MaxCapacity, w \in BOOLEAN : create_event_uuid(c, w) /\ UNCHANGED calls
  \/ \E u \in UserIds, e \in EventIds :
       WaitlistRoom(u, e, MaxEngineWaitlist) /\ register_user(u, e) /\ UNCHANGED calls
  \/ \E u \in UserIds, e \in EventIds : unregister_user(u, e) /\ UNCHANGED calls

EngineSpec == Init /\ [][NextEngine]_vars

\* histories in which the service generates every eventId: an event is created
\* under an id no item refers to, and updated and deleted freely afterwards;
\* the clock is followed up to MaxManagedClock
NextGenerated ==
  \/ \E u \in UserIds, name \in Names : create_user(u, name) /\ UNCHANGED calls
  \/ \E c \in 1..MaxCapacity, w \in BOOLEAN : create_event_uuid(c, w) /\ UNCHANGED calls
  \/ \E e \in EventIds, c \in 0..MaxCapacity, w \in {"unset", "true", "false"} :
       update_event(e, c, w) /\ UNCHANGED calls
  \/ \E e \in EventIds : delete_event(e) /\ UNCHANGED calls
  \/ \E u \in UserIds, e \in EventIds :
       /\ WaitlistRoom(u, e, MaxWaitlist)
       /\ register_user(u, e)
       /\ now' <= MaxManagedClock
       /\ UNCHANGED calls
  \/ \E u \in UserIds, e \in EventIds : unregister_user(u, e) /\ UNCHANGED calls

GeneratedSpec == Init /\ [][NextGenerated]_vars

\* no worker has served a call yet
Quiet == \A p \in Procs : calls[p].served = 0

\* the bound on the waitlist for a call in flight
CallHasRoom(p) ==
  calls[p].pc = "add_to_waitlist" =>
    Cardinality(WaitlistOf(table, calls[p].eventId)) < MaxWaitlist

\* concurrent histories of the engine: users and events are created first,
\* by one store call each; then register_user and unregister_user calls run
\* on the workers, one store call at a time, in any interleaving
NextConcurrent ==
  \/ \E u \in UserIds, name \in Names :
       Quiet /\ create_user(u, name) /\ UNCHANGED calls
  \/ \E c \in 1..MaxCapacity, w \in BOOLEAN :
       Quiet /\ create_event_uuid(c, w) /\ UNCHANGED calls
  \/ \E p \in Procs, u \in UserIds, e \in EventIds : register_get_user(p, u, e)
  \/ \E p \in Procs : register_get_event(p)
  \/ \E p \in Procs : register_get_registration(p)
  \/ \E p \in Procs : CallHasRoom(p) /\ register_add_to_waitlist(p)
  \/ \E p \in Procs : call_increment_registrations(p)
  \/ \E p \in Procs : register_put_by_user(p)
  \/ \E p \in Procs : register_put_by_event(p)
  \/ \E p \in Procs, u \in UserIds, e \in EventIds : unregister_get_registration(p, u, e)
  \/ \E p \in Procs : unregister_decrement_registrations(p)
  \/ \E p \in Procs : unregister_get_first_waitlisted(p)
  \/ \E p \in Procs : unregister_update_by_user(p)
  \/ \E p \in Procs : unregister_update_by_event(p)
  \/ \E p \in Procs : unregister_remove_from_waitlist(p)
  \/ \E p \in Procs : unregister_delete_by_user(p)
  \/ \E p \in Procs : unregister_delete_by_event(p)

ConcurrentSpec == Init /\ [][NextConcurrent]_vars

\* histories of user creation: the handler of the layered application as one
\* action and as a call, and the handler of main.py as a call of two store
\* calls
NextUsers ==
  \/ \E u \in UserIds, name \in UserNames : create_user(u, name) /\ UNCHANGED calls
  \/ \E p \in Procs, u \in UserIds, name \in UserNames : call_create_user(p, u, name)
  \/ \E p \in Procs, u \in UserIds, name \in UserNames : main_create_user_get_item(p, u, name)
  \/ \E p \in Procs : main_create_user_put_item(p)

UserSpec == Init /\ [][NextUsers]_vars

\* the empty table of the histories with queries
QueryInit ==
  /\ table = [users    |-> [u \in UserIds |-> NoItem],
              events   |-> [e \in QueryEventIds |-> NoItem],
              byUser   |-> [p \in UserIds \X QueryEventIds |-> NoItem],
              byEvent  |-> [p \in UserIds \X QueryEventIds |-> NoItem],
              waitlist |-> {}]
  /\ now = 0
  /\ result = NoResult
  /\ calls = [p \in Procs |-> IdleCall]

\* histories with queries: events are created under generated ids and
\* deleted, users register and unregister, and the two listings are read
NextQuery ==
  \/ \E u \in QueryUserIds, name \in Names : create_user(u, name) /\ UNCHANGED calls
  \/ \E c \in 1..MaxCapacity, w \in BOOLEAN : create_event_uuid(c, w) /\ UNCHANGED calls
  \/ \E e \in QueryEventIds : delete_event(e) /\ UNCHANGED calls
  \/ \E u \in QueryUserIds, e \in QueryEventIds :
       /\ WaitlistRoom(u, e, MaxWaitlist)
       /\ register_user(u, e)
       /\ now' <= MaxManagedClock
       /\ UNCHANGED calls
  \/ \E u \in QueryUserIds, e \in QueryEventIds : unregister_user(u, e) /\ UNCHANGED calls
  \/ \E u \in QueryUserIds : get_user_events(u) /\ UNCHANGED calls
  \/ \E e \in QueryEventIds : get_event_registrations(e) /\ UNCHANGED calls

QuerySpec == QueryInit /\ [][NextQuery]_vars

\* the worker of the histories with failing store calls
Worker == {"p1"}

\* histories of the engine over a store whose calls may fail: users and
\* events are created first; then register_user and unregister_user calls run
\* one after the other, store call by store call, and any store call may
\* raise ClientError
NextFault ==
  \/ \E u \in UserIds, name \in Names :
       Quiet /\ create_user(u, name) /\ UNCHANGED calls
  \/ \E c \in 1..MaxCapacity, w \in BOOLEAN :
       Quiet /\ create_event_uuid(c, w) /\ UNCHANGED calls
  \/ \E p \in Worker, u \in UserIds, e \in EventIds : register_get_user(p, u, e)
  \/ \E p \in Worker : register_get_event(p)
  \/ \E p \in Worker : register_get_registration(p)
  \/ \E p \in Worker : CallHasRoom(p) /\ register_add_to_waitlist(p)
  \/ \E p \in Worker : call_increment_registrations(p)
  \/ \E p \in Worker : register_put_by_user(p)
  \/ \E p \in Worker : register_put_by_event(p)
  \/ \E p \in Worker, u \in UserIds, e \in EventIds : unregister_get_registration(p, u, e)
  \/ \E p \in Worker : unregister_decrement_registrations(p)
  \/ \E p \in Worker : unregister_get_first_waitlisted(p)
  \/ \E p \in Worker : unregister_update_by_user(p)
  \/ \E p \in Worker : unregister_update_by_event(p)
  \/ \E p \in Worker : unregister_remove_from_waitlist(p)
  \/ \E p \in Worker : unregister_delete_by_user(p)
  \/ \E p \in Worker : unregister_delete_by_event(p)
  \/ \E p \in Worker : store_call_fails(p)
  \/ \E p \in Worker, op \in {"register_user", "unregister_user"},
         u \in UserIds, e \in EventIds : first_store_call_fails(p, op, u, e)

FaultSpec == Init /\ [][NextFault]_vars

\* a table as a scan reads it: between one and MaxPages pages, each item of
\* the table on one of them
ScanInit ==
  /\ \E n \in 1..MaxPages :
     \E place \in [ScanItemIds -> 0..n], statuses \in [ScanEventIds -> ScanStatuses] :
       table = [pages |-> [i \in 1..n |->
                  PageOf({ScanItem(id, statuses) : id \in {x \in ScanItemIds : place[x] = i}})]]
  /\ now = 0
  /\ result = NoResult
  /\ calls = [p \in Procs |-> IdleCall]

NextScan == \E status_filter \in StatusFilters : list_all(status_filter)

ScanSpec == ScanInit /\ [][NextScan]_vars

\* sequential histories of register and unregister requests served by either
\* application over the one table
NextMonolith ==
  \/ \E u \in UserIds, name \in Names : create_user(u, name) /\ UNCHANGED calls
  \/ \E c \in 1..MaxCapacity, w \in BOOLEAN : create_event_uuid(c, w) /\ UNCHANGED calls
  \/ \E u \in UserIds, e \in EventIds :
       WaitlistRoom(u, e, MaxWaitlist) /\ register_user(u, e) /\ UNCHANGED calls
  \/ \E u \in UserIds, e \in EventIds : unregister_user(u, e) /\ UNCHANGED calls
  \/ \E u \in UserIds, e \in EventIds :
       WaitlistRoom(u, e, MaxWaitlist) /\ main_register_user_for_event(u, e) /\ UNCHANGED calls
  \/ \E u \in UserIds, e \in EventIds :
       main_unregister_user_from_event(u, e) /\ UNCHANGED calls

MonolithSpec == Init /\ [][NextMonolith]_vars

(* ------------------------- derived quantities ------------------------- *)

\* registrationStatus of an item, "none" when there is no item
StatusOf(item) == IF item = NoItem THEN "none" ELSE item.registrationStatus

\* number of by-event records of e with registrationStatus 'registered'
RegisteredCount(t, e) ==
  Cardinality({u \in UserIds : StatusOf(t.byEvent[<<u, e>>]) = "registered"})

\* the handler ran to its end without raising
Completed(op) == result.op = op /\ result.outcome = "ok"

(* ------------------------------- claims ------------------------------- *)

\* C1: after every completed register_user or unregister_user call, for every
\* event, currentRegistrations equals the number of by-event registration
\* records of that event whose registrationStatus is 'registered'.
C1_CounterEqualsRegistered ==
  (Completed("register_user") \/ Completed("unregister_user")) =>
    \A e \in EventIds :
      table.events[e] # NoItem =>
        table.events[e].currentRegistrations = RegisteredCount(table, e)

\* C2: for every event, in every state reached by completed API operations,
\* currentRegistrations <= capacity.
C2_CounterWithinCapacity ==
  \A e \in EventIds :
    table.events[e] # NoItem =>
      table.events[e].currentRegistrations <= table.events[e].capacity

\* C3: unregistering a user whose status is 'waitlisted' leaves the event
\* counter unchanged, promotes nobody, removes both mirror records of that
\* user and removes that user's waitlist entry for the event.
C3_UnregisterWaitlisted ==
  [][result'.op = "unregister_user" =>
     \A u \in UserIds, e \in EventIds :
       (/\ StatusOf(table.byUser[<<u, e>>]) = "waitlisted"
        /\ unregister_user(u, e))
       => /\ table'.events = table.events
          /\ \A p \in Pairs \ {<<u, e>>} :
               table'.byUser[p] = table.byUser[p] /\ table'.byEvent[p] = table.byEvent[p]
          /\ table'.byUser[<<u, e>>] = NoItem
          /\ table'.byEvent[<<u, e>>] = NoItem
          /\ ~ \E w \in table'.waitlist : w.userId = u /\ w.eventId = e]_vars

\* C4: if a waitlist entry for (event e, user u) exists then u holds a
\* registration record for e whose status is 'waitlisted'.
C4_WaitlistEntryImpliesWaitlisted ==
  \A w \in table.waitlist :
    StatusOf(table.byUser[<<w.userId, w.eventId>>]) = "waitlisted"

\* the entries of e's waitlist that no other entry is older than
Oldest(t, e) ==
  {w \in WaitlistOf(t, e) : \A x \in WaitlistOf(t, e) : w.addedAt <= x.addedAt}

\* C5: unregistering a user whose status is 'registered' while the event's
\* waitlist is non-empty: the user owning the oldest waitlist entry has status
\* 'registered' on both mirrors afterwards, that entry no longer exists, and
\* currentRegistrations after the call equals its value before the call.
C5_UnregisterPromotesOldest ==
  [][result'.op = "unregister_user" =>
     \A u \in UserIds, e \in EventIds :
       (/\ StatusOf(table.byUser[<<u, e>>]) = "registered"
        /\ WaitlistOf(table, e) # {}
        /\ unregister_user(u, e)
        /\ result'.outcome = "ok")
       => \E w \in Oldest(table, e) :
            /\ StatusOf(table'.byUser[<<w.userId, e>>]) = "registered"
            /\ StatusOf(table'.byEvent[<<w.userId, e>>]) = "registered"
            /\ w \notin table'.waitlist
            /\ table'.events[e].currentRegistrations
                 = table.events[e].currentRegistrations]_vars

\* the checks of register_user that come before the capacity check pass
Admissible(u, e) ==
  /\ table.users[u] # NoItem
  /\ table.events[e] # NoItem
  /\ table.byUser[<<u, e>>] = NoItem

\* C6: register_user on an event with currentRegistrations >= capacity and
\* waitlistEnabled true succeeds with status 'waitlisted', writes both mirrors
\* with status 'waitlisted', creates the waitlist entry keyed by the call's
\* timestamp and the userId (and no other), and leaves currentRegistrations
\* unchanged.
C6_FullWithWaitlist ==
  [][result'.op = "register_user" =>
     \A u \in UserIds, e \in EventIds :
       (/\ Admissible(u, e)
        /\ table.events[e].currentRegistrations >= table.events[e].capacity
        /\ table.events[e].waitlistEnabled
        /\ register_user(u, e))
       => /\ result' = Response("register_user", "ok", "waitlisted")
          /\ table'.byUser[<<u, e>>] = RegistrationItem(u, e, "waitlisted")
          /\ table'.byEvent[<<u, e>>] = RegistrationItem(u, e, "waitlisted")
          /\ table'.waitlist =
               table.waitlist \cup {[eventId |-> e, addedAt |-> now', userId |-> u]}
          /\ now' >= now
          /\ table'.events = table.events]_vars

C6_Witness ==
  /\ result = Response("register_user", "ok", "waitlisted")
  /\ \E w \in table.waitlist :
       /\ w.addedAt = now
       /\ table.byUser[<<w.userId, w.eventId>>]
            = RegistrationItem(w.userId, w.eventId, "waitlisted")
       /\ table.events[w.eventId] # NoItem
       /\ table.events[w.eventId].currentRegistrations
            >= table.events[w.eventId].capacity

\* C7: register_user on an event with currentRegistrations >= capacity and
\* waitlistEnabled false performs no write (capacity, currentRegistrations,
\* registration mirrors and waitlist entries unchanged) and fails, with
\* CapacityExceededError when the user exists and holds no record for the event.
C7_FullWithoutWaitlist ==
  [][result'.op = "register_user" =>
     \A u \in UserIds, e \in EventIds :
       (/\ table.events[e] # NoItem
        /\ table.events[e].currentRegistrations >= table.events[e].capacity
        /\ ~table.events[e].waitlistEnabled
        /\ register_user(u, e))
       => /\ table' = table
          /\ result'.outcome # "ok"
          /\ Admissible(u, e) =>
               result' = Response("register_user", "CapacityExceededError", "-")]_vars

C7_Witness ==
  /\ result = Response("register_user", "CapacityExceededError", "-")
  /\ \E e \in EventIds :
       /\ table.events[e] # NoItem
       /\ ~table.events[e].waitlistEnabled
       /\ table.events[e].currentRegistrations = table.events[e].capacity
       /\ RegisteredCount(table, e) = table.events[e].capacity

\* C8: register_user(u, e) called while any registration record for (u, e)
\* exists fails with ResourceAlreadyExistsError and performs no write.
C8_DuplicateRejected ==
  [][result'.op = "register_user" =>
     \A u \in UserIds, e \in EventIds :
       (/\ table.byUser[<<u, e>>] # NoItem
        /\ register_user(u, e))
       => /\ result' = Response("register_user", "ResourceAlreadyExistsError", "-")
          /\ table' = table]_vars

\* the states of the scenario of C9 on event e with users A and B: the event
\* has capacity 1 and its waitlist enabled, and only A and B hold records
Scenario(t, A, B, e, counter, statusA, statusB, waiting) ==
  /\ t.events[e] = [capacity |-> 1, currentRegistrations |-> counter,
                    waitlistEnabled |-> TRUE]
  /\ t.users[A] # NoItem /\ t.users[B] # NoItem
  /\ \A u \in UserIds :
       LET expected == IF u = A THEN statusA ELSE IF u = B THEN statusB ELSE "none"
       IN  /\ t.byUser[<<u, e>>] =
                IF expected = "none" THEN NoItem ELSE RegistrationItem(u, e, expected)
           /\ t.byEvent[<<u, e>>] = t.byUser[<<u, e>>]
  /\ {w.userId : w \in WaitlistOf(t, e)} = waiting
  /\ Cardinality(WaitlistOf(t, e)) = Cardinality(waiting)

\* C9: on an event with capacity 1 and waitlist enabled, register A gives
\* status 'registered' and counter 1; register B gives status 'waitlisted' and
\* counter 1; unregister A removes A, makes B 'registered', leaves counter 1
\* and no waitlist entries; unregister B leaves counter 0 and no waitlist
\* entries.
C9_Scenario ==
  [][\A e \in EventIds :
       (/\ result'.op \in {"register_user", "unregister_user"}
        /\ table.events[e] # NoItem
        /\ table.events[e].capacity = 1
        /\ table.events[e].waitlistEnabled) =>
       \A A \in UserIds : \A B \in UserIds \ {A} :
         /\ (Scenario(table, A, B, e, 0, "none", "none", {}) /\ register_user(A, e))
            => /\ result' = Response("register_user", "ok", "registered")
               /\ Scenario(table', A, B, e, 1, "registered", "none", {})
         /\ (Scenario(table, A, B, e, 1, "registered", "none", {}) /\ register_user(B, e))
            => /\ result' = Response("register_user", "ok", "waitlisted")
               /\ Scenario(table', A, B, e, 1, "registered", "waitlisted", {B})
         /\ (Scenario(table, A, B, e, 1, "registered", "waitlisted", {B})
               /\ unregister_user(A, e))
            => /\ result' = Response("unregister_user", "ok", "-")
               /\ Scenario(table', A, B, e, 1, "none", "registered", {})
         /\ (Scenario(table, A, B, e, 1, "none", "registered", {}) /\ unregister_user(B, e))
            => /\ result' = Response("unregister_user", "ok", "-")
               /\ Scenario(table', A, B, e, 0, "none", "none", {})]_vars

\* the scenario's third step has run: B alone holds the only place
C9_Witness ==
  /\ result = Response("unregister_user", "ok", "-")
  /\ \E A \in UserIds, B \in UserIds, e \in EventIds :
       A # B /\ Scenario(table, A, B, e, 1, "none", "registered", {})

\* C10: for every (user, event) pair the by-user record exists exactly when
\* the by-event record exists, and when both exist they carry the same
\* registrationStatus.
C10_MirrorsAgree ==
  \A p \in Pairs :
    /\ (table.byUser[p] = NoItem) <=> (table.byEvent[p] = NoItem)
    /\ StatusOf(table.byUser[p]) = StatusOf(table.byEvent[p])

\* a promotion and a removal have both happened: one pair is registered on
\* both mirrors, another is gone from both, after a successful unregister
C10_Witness ==
  /\ result = Response("unregister_user", "ok", "-")
  /\ \E p \in Pairs, q \in Pairs :
       /\ p # q
       /\ StatusOf(table.byUser[p]) = "registered"
       /\ StatusOf(table.byEvent[p]) = "registered"
       /\ table.users[q[1]] # NoItem
       /\ table.byUser[q] = NoItem /\ table.byEvent[q] = NoItem
       /\ table.waitlist = {}
       /\ table.events[p[2]] # NoItem
       /\ table.events[p[2]].currentRegistrations = table.events[p[2]].capacity

\* lexicographic order of user ids
UserIdLess(a, b) == SortKeyLess(UserChars[a], UserChars[b])

\* the entries of e's waitlist with the smallest timestamp and, among those,
\* the smallest userId
FirstInLine(t, e) ==
  {w \in WaitlistOf(t, e) :
     \A x \in WaitlistOf(t, e) \ {w} :
       \/ w.addedAt < x.addedAt
       \/ w.addedAt = x.addedAt /\ UserIdLess(w.userId, x.userId)}

\* the users that a step turns into 'registered' on either mirror
Promoted(e) ==
  {v \in UserIds :
     \/ StatusOf(table.byUser[<<v, e>>]) # "registered"
          /\ StatusOf(table'.byUser[<<v, e>>]) = "registered"
     \/ StatusOf(table.byEvent[<<v, e>>]) # "registered"
          /\ StatusOf(table'.byEvent[<<v, e>>]) = "registered"}

\* C11: an unregister_user call by a registered user promotes at most one
\* user; the promoted user owns the waitlist entry with the smallest
\* timestamp, ties broken by the smallest userId, and that entry is the one
\* the call removes.
C11_PromotesFirstInLine ==
  [][result'.op = "unregister_user" =>
     \A u \in UserIds, e \in EventIds :
       (/\ StatusOf(table.byUser[<<u, e>>]) = "registered"
        /\ unregister_user(u, e))
       => /\ Cardinality(Promoted(e)) <= 1
          /\ \A v \in Promoted(e) : \E w \in FirstInLine(table, e) : w.userId = v
          /\ \/ table'.waitlist = table.waitlist
             \/ \E w \in FirstInLine(table, e) : table'.waitlist = table.waitlist \ {w}]_vars

\* an unregister_user call has just promoted one of two waiting users: the
\* caller left no record and no entry, one user is registered, the other
\* still waits
C11_Witness ==
  /\ result = Response("unregister_user", "ok", "-")
  /\ \E e \in EventIds : \E u \in UserIds : \E v \in UserIds \ {u} : \E x \in UserIds \ {u, v} :
       /\ table.events[e] # NoItem
       /\ table.byUser[<<u, e>>] = NoItem
       /\ table.byUser[<<v, e>>] = RegistrationItem(v, e, "registered")
       /\ table.byUser[<<x, e>>] = RegistrationItem(x, e, "waitlisted")
       /\ {w.userId : w \in WaitlistOf(table, e)} = {x}
       /\ table.events[e].currentRegistrations = 1
       /\ table.events[e].capacity = 1

\* u holds a complete registration record for e with status 'waitlisted'
Waitlisted(t, u, e) == t.byUser[<<u, e>>] = RegistrationItem(u, e, "waitlisted")

\* the timestamp of u's current waitlisted registration for e: that of the
\* latest entry u owns
JoinedAt(t, u, e) ==
  CHOOSE ts \in 0..MaxClock :
    /\ \E w \in WaitlistOf(t, e) : w.userId = u /\ w.addedAt = ts
    /\ \A w \in WaitlistOf(t, e) : w.userId = u => w.addedAt <= ts

\* C12: if u and v both hold status 'waitlisted' on e and u's current
\* waitlisted registration was made before v's, no step makes v 'registered'
\* while u is still waitlisted.
C12_WaitlistOrderPreserved ==
  [][\A e \in EventIds : \A u \in UserIds : \A v \in UserIds \ {u} :
       (/\ Waitlisted(table, u, e)
        /\ Waitlisted(table, v, e)
        /\ JoinedAt(table, u, e) < JoinedAt(table, v, e))
       => ~ (/\ StatusOf(table'.byUser[<<v, e>>]) = "registered"
             /\ Waitlisted(table', u, e))]_vars

\* C13: under any interleaving of register_user and unregister_user calls on
\* one event, neither currentRegistrations nor the number of records with
\* status 'registered' exceeds capacity.
C13_CapacityUnderConcurrency ==
  \A e \in EventIds :
    table.events[e] # NoItem =>
      /\ table.events[e].currentRegistrations <= table.events[e].capacity
      /\ RegisteredCount(table, e) <= table.events[e].capacity

\* the worker's call has returned
Returned(p, op) == calls[p].op = op /\ calls[p].pc = "done"

\* C14: when two register_user(u, e) calls for the same pair run concurrently,
\* at most one of them succeeds.
C14_OneRegistrationPerPair ==
  (/\ Returned("p1", "register_user")
   /\ Returned("p2", "register_user")
   /\ calls["p1"].userId = calls["p2"].userId
   /\ calls["p1"].eventId = calls["p2"].eventId)
  => ~ (calls["p1"].outcome = "ok" /\ calls["p2"].outcome = "ok")

\* C15: creating a user whose id already exists fails with
\* ResourceAlreadyExistsError and leaves the stored user item unchanged.
C15_DuplicateUserRejected ==
  [][result'.op = "create_user" =>
     \A u \in UserIds, name \in UserNames :
       (/\ table.users[u] # NoItem
        /\ create_user(u, name))
       => /\ result' = Response("create_user", "ResourceAlreadyExistsError", "-")
          /\ table' = table]_vars

\* a create_user request carrying another name has just been rejected
C15_Witness ==
  /\ result = Response("create_user", "ResourceAlreadyExistsError", "-")
  /\ \E u \in UserIds : table.users[u] = [name |-> "n1"]
  /\ \E u \in UserIds : table.users[u] = [name |-> "n2"]

\* the worker's call is a user creation, by either application
CreatesUser(p) == calls[p].op \in {"create_user", "main.create_user"}

\* what a rejected user creation returns: the exception of the layered
\* application, the HTTP status main.py raises in its place
Rejected(p) ==
  calls[p].outcome =
    IF calls[p].op = "create_user" THEN "ResourceAlreadyExistsError" ELSE "HTTP_409_CONFLICT"

\* C16: of two concurrent create calls for one userId exactly one succeeds,
\* the other fails with ResourceAlreadyExistsError, and the stored item is
\* the one the successful call wrote: a call that returned either succeeded
\* and its item is the stored one, or was rejected and the user exists, and
\* two calls for one id never both succeed.
C16_AtomicCreateIfAbsent ==
  /\ \A p \in Procs :
       (CreatesUser(p) /\ calls[p].pc = "done") =>
         \/ calls[p].outcome = "ok" /\ table.users[calls[p].userId] = [name |-> calls[p].name]
         \/ Rejected(p) /\ table.users[calls[p].userId] # NoItem
  /\ (/\ CreatesUser("p1") /\ CreatesUser("p2")
      /\ calls["p1"].userId = calls["p2"].userId)
     => ~ (calls["p1"].outcome = "ok" /\ calls["p2"].outcome = "ok")

\* two overlapping create calls for one id, carrying different names, have
\* returned: one succeeded, the other was rejected
C16_Witness ==
  /\ CreatesUser("p1") /\ CreatesUser("p2")
  /\ calls["p1"].pc = "done" /\ calls["p2"].pc = "done"
  /\ calls["p1"].userId = calls["p2"].userId
  /\ calls["p1"].name # calls["p2"].name
  /\ calls["p1"].op = "main.create_user" /\ calls["p2"].op = "main.create_user"
  /\ \E p \in Procs : calls[p].outcome = "ok"
  /\ \E p \in Procs : Rejected(p)

\* C17: creating an event with an eventId that already has an Event item is
\* rejected and leaves the existing item, its currentRegistrations included,
\* unchanged.
C17_DuplicateEventRejected ==
  [][result'.op = "create_event" =>
     \A e \in EventIds, c \in 1..MaxCapacity, w \in BOOLEAN :
       (/\ table.events[e] # NoItem
        /\ create_event(e, c, w))
       => /\ result'.outcome # "ok"
          /\ table'.events[e] = table.events[e]]_vars

\* C18: unregister_user(u, e) when no registration record for (u, e) exists
\* fails with ResourceNotFoundError and performs no write.
C18_UnregisterUnknown ==
  [][result'.op = "unregister_user" =>
     \A u \in UserIds, e \in EventIds :
       (/\ table.byUser[<<u, e>>] = NoItem
        /\ table.byEvent[<<u, e>>] = NoItem
        /\ unregister_user(u, e))
       => /\ result' = Response("unregister_user", "ResourceNotFoundError", "Registration")
          /\ table' = table]_vars

\* an unregister_user call for a user without a record has just failed on an
\* event that holds registrations and a waitlist
C18_Witness ==
  /\ result = Response("unregister_user", "ResourceNotFoundError", "Registration")
  /\ \E e \in EventIds :
       /\ table.events[e] # NoItem
       /\ RegisteredCount(table, e) > 0
       /\ WaitlistOf(table, e) # {}
       /\ \E u \in UserIds : table.users[u] # NoItem /\ table.byUser[<<u, e>>] = NoItem

\* C19: register_user fails with ResourceNotFoundError when the user is
\* absent, and when the user exists but the event is absent; the user is
\* checked before the event (with both absent the error names the user), and
\* in both cases no item is written.
C19_RegisterUnknown ==
  [][result'.op = "register_user" =>
     \A u \in UserIds, e \in EventIds :
       /\ (table.users[u] = NoItem /\ register_user(u, e))
          => /\ result' = Response("register_user", "ResourceNotFoundError", "User")
             /\ table' = table
       /\ (table.users[u] # NoItem /\ table.events[e] = NoItem /\ register_user(u, e))
          => /\ result' = Response("register_user", "ResourceNotFoundError", "Event")
             /\ table' = table]_vars

\* a register_user call has just failed on the user with the event absent too
C19_Witness ==
  /\ result = Response("register_user", "ResourceNotFoundError", "User")
  /\ \E u \in UserIds : table.users[u] = NoItem
  /\ \E u \in UserIds : table.users[u] # NoItem
  /\ \A e \in EventIds : table.events[e] = NoItem

\* the worker's step is the store call its call is at
Steps(p, pc) == calls[p].pc = pc /\ calls'[p] # calls[p]

\* a store call that changes the counter of e runs in this step
Increments(e) ==
  \E p \in Procs : calls[p].eventId = e /\ Steps(p, "increment_registrations")

Decrements(e) ==
  \E p \in Procs : calls[p].eventId = e /\ Steps(p, "decrement_registrations")

\* C20: increment_registrations and decrement_registrations are each one
\* atomic store update: in any interleaving of calls, each increment adds one
\* to the counter as it stands in the store, each decrement takes one from
\* it, and no other store call changes it (so that after n increments and m
\* decrements it is its initial value + n - m).
C20_NoLostUpdate ==
  [][\A e \in EventIds :
       table.events[e] # NoItem =>
         /\ table'.events[e] # NoItem
         /\ table'.events[e].currentRegistrations =
              table.events[e].currentRegistrations
                + (IF Increments(e) THEN 1 ELSE 0) - (IF Decrements(e) THEN 1 ELSE 0)]_vars

\* an increment and a decrement of overlapping calls have both been applied:
\* one call read the event before the other's update and incremented after it
C20_Witness ==
  \E e \in EventIds :
    /\ calls["p1"].eventId = e /\ calls["p2"].eventId = e
    /\ calls["p1"].op = "unregister_user" /\ calls["p1"].pc = "get_first_waitlisted"
    /\ calls["p2"].op = "register_user" /\ calls["p2"].pc = "put_by_user"
    /\ calls["p2"].status = "registered"
    /\ table.events[e] # NoItem

\* the events that get_user_events(u) is to return: the existing events on
\* which the by-user record of u has status 'registered', in key order
RegisteredEvents(t, u) ==
  LET ids == Ascending({e \in DOMAIN t.events :
                          /\ StatusOf(t.byUser[<<u, e>>]) = "registered"
                          /\ t.events[e] # NoItem}, EventChars)
  IN  [i \in 1..Len(ids) |-> DomainEvent(t, ids[i])]

\* C21: get_user_events(u) returns exactly the existing events for which u's
\* by-user record has status 'registered', and never an event on which u is
\* only waitlisted.
C21_UserEventsAreRegistered ==
  [][result'.op = "get_user_events" =>
     \A u \in UserIds :
       get_user_events(u) => result' = Listing("get_user_events", RegisteredEvents(table, u))]_vars

\* C22: EventRepository.update and EventRepository.delete on an eventId with
\* no Event item fail with ResourceNotFoundError and leave the table
\* unchanged (update is reached by the requests that carry a field).
C22_UpdateDeleteUnknown ==
  [][result'.op \in {"update_event", "delete_event"} =>
     \A e \in EventIds :
       table.events[e] = NoItem =>
         /\ \A c \in 0..MaxCapacity, w \in {"unset", "true", "false"} :
              (/\ result'.op = "update_event"
               /\ c # 0 \/ w # "unset"
               /\ update_event(e, c, w))
              => /\ result' = Response("update_event", "ResourceNotFoundError", "Event")
                 /\ table' = table
         /\ (result'.op = "delete_event" /\ delete_event(e))
              => /\ result' = Response("delete_event", "ResourceNotFoundError", "Event")
                 /\ table' = table]_vars

\* an update was refused for an event that was deleted while it had a
\* registration
C22_Witness ==
  /\ result = Response("update_event", "ResourceNotFoundError", "Event")
  /\ \E e \in EventIds :
       /\ table.events[e] = NoItem
       /\ \E u \in UserIds : table.byEvent[<<u, e>>] # NoItem

\* C23: deleting an event removes only its METADATA item: every registration
\* mirror (by-user and by-event) and every waitlist entry of that event is
\* left unchanged.
C23_DeleteLeavesRegistrations ==
  [][result'.op = "delete_event" =>
     \A e \in EventIds :
       (table.events[e] # NoItem /\ delete_event(e))
       => /\ result' = Response("delete_event", "ok", "-")
          /\ table' = [table EXCEPT !.events[e] = NoItem]]_vars

\* an event was deleted that had a registered user, a waitlisted user and a
\* waitlist entry, and they are all still there
C23_Witness ==
  /\ result = Response("delete_event", "ok", "-")
  /\ \E e \in EventIds :
       /\ table.events[e] = NoItem
       /\ \E u \in UserIds :
            /\ table.byUser[<<u, e>>] = RegistrationItem(u, e, "registered")
            /\ table.byEvent[<<u, e>>] = RegistrationItem(u, e, "registered")
       /\ \E w \in WaitlistOf(table, e) :
            /\ table.byUser[<<w.userId, e>>] = RegistrationItem(w.userId, e, "waitlisted")
            /\ table.byEvent[<<w.userId, e>>] = RegistrationItem(w.userId, e, "waitlisted")

\* C24: get_user_events(u) does not fail when u holds a 'registered' record
\* for an event whose Event item has been deleted: it omits that event and
\* returns the remaining ones.
C24_DeletedEventSkipped ==
  [][result'.op = "get_user_events" =>
     \A u \in UserIds :
       (/\ \E e \in QueryEventIds :
             /\ StatusOf(table.byUser[<<u, e>>]) = "registered"
             /\ table.events[e] = NoItem
        /\ get_user_events(u))
       => /\ result'.outcome = "ok"
          /\ result'.items = RegisteredEvents(table, u)]_vars

\* the entries that get_event_registrations(e) is to return: one for each
\* by-event record of e, with the status stored in it, in key order
EventRegistrations(t, e) ==
  LET ids == Ascending({u \in UserIds : t.byEvent[<<u, e>>] # NoItem}, UserChars)
  IN  [i \in 1..Len(ids) |->
         RegistrationItem(ids[i], e, StatusOf(t.byEvent[<<ids[i], e>>]))]

\* C25: get_event_registrations(e) returns one entry per by-event mirror
\* record of e, the 'registered' and the 'waitlisted' ones, each with the
\* status stored in that record, and no waitlist-entry or metadata item.
C25_EventRegistrationsListed ==
  [][result'.op = "get_event_registrations" =>
     \A e \in QueryEventIds :
       get_event_registrations(e)
       => result' = Listing("get_event_registrations", EventRegistrations(table, e))]_vars

\* the two mirrors of some pair disagree, or the counter of some event
\* differs from the number of its 'registered' records
Inconsistent(t) ==
  \/ \E p \in Pairs : t.byUser[p] # t.byEvent[p]
  \/ \E e \in EventIds :
       /\ t.events[e] # NoItem
       /\ t.events[e].currentRegistrations # RegisteredCount(t, e)

\* C26: there is an interleaving of two concurrent engine calls, with no
\* crash and no store failure, after which both calls have completed and the
\* mirrors of some pair disagree or currentRegistrations differs from the
\* number of 'registered' records: whenever the only two calls served are
\* overlapping register_user calls for one pair that have both returned a
\* 'registered' registration, the counter of the event differs from the
\* number of its 'registered' records.
C26_InterleavingBreaksConsistency ==
  (/\ calls["p1"].served + calls["p2"].served = 2
   /\ Returned("p1", "register_user") /\ Returned("p2", "register_user")
   /\ calls["p1"].userId = calls["p2"].userId
   /\ calls["p1"].eventId = calls["p2"].eventId
   /\ calls["p1"].outcome = "ok" /\ calls["p2"].outcome = "ok"
   /\ calls["p1"].status = "registered" /\ calls["p2"].status = "registered")
  => /\ table.events[calls["p1"].eventId].currentRegistrations
          # RegisteredCount(table, calls["p1"].eventId)
     /\ Inconsistent(table)

\* the only two calls served, register_user calls for one pair, have both
\* returned a 'registered' registration: the counter is 2 for one record
C26_Witness ==
  /\ calls["p1"].served + calls["p2"].served = 2
  /\ Returned("p1", "register_user") /\ Returned("p2", "register_user")
  /\ calls["p1"].userId = calls["p2"].userId
  /\ calls["p1"].eventId = calls["p2"].eventId
  /\ calls["p1"].outcome = "ok" /\ calls["p2"].outcome = "ok"
  /\ calls["p1"].status = "registered" /\ calls["p2"].status = "registered"
  /\ table.events[calls["p1"].eventId].currentRegistrations = 2
  /\ RegisteredCount(table, calls["p1"].eventId) = 1
  /\ Inconsistent(table)

\* C27: in a sequential history, after a successful unregister_user(u, e),
\* whatever the status of u was, neither the by-user nor the by-event record
\* of (u, e) exists, and a register_user(u, e) that follows is not rejected
\* with ResourceAlreadyExistsError.
C27_UnregisterReturnsToUnregistered ==
  [][/\ result'.op = "unregister_user" =>
        \A u \in UserIds, e \in EventIds :
          (/\ table.byUser[<<u, e>>] # NoItem
           /\ unregister_user(u, e)
           /\ result'.outcome = "ok")
          => /\ table'.byUser[<<u, e>>] = NoItem
             /\ table'.byEvent[<<u, e>>] = NoItem
     /\ (/\ Completed("unregister_user")
         /\ result'.op = "register_user") =>
        \A u \in UserIds, e \in EventIds :
          (/\ table.byUser[<<u, e>>] = NoItem
           /\ table.byEvent[<<u, e>>] = NoItem
           /\ register_user(u, e))
          => result'.outcome # "ResourceAlreadyExistsError"]_vars

\* a user registered again, with success, right after an unregister_user
\* call: the user holds a record and an older waitlist entry from the
\* registration that was cancelled
C27_Witness ==
  /\ result = Response("register_user", "ok", "waitlisted")
  /\ \E u \in UserIds, e \in EventIds :
       /\ table.byUser[<<u, e>>] = RegistrationItem(u, e, "waitlisted")
       /\ Cardinality({w \in WaitlistOf(table, e) : w.userId = u}) = 2

\* the users waitlisted on e whose current registration was made before that
\* of w
Ahead(t, w, e) ==
  {u \in UserIds \ {w} :
     Waitlisted(t, u, e) /\ JoinedAt(t, u, e) < JoinedAt(t, w, e)}

\* no other user waitlisted on e registered at the clock reading of w
NoTie(t, w, e) ==
  \A u \in UserIds \ {w} :
    Waitlisted(t, u, e) => JoinedAt(t, u, e) # JoinedAt(t, w, e)

\* C28: if w is waitlisted on e and exactly k other users waitlisted on e
\* registered before w, then after k+1 successful unregister_user calls by
\* registered users of e, none by w or those k users, w is 'registered': a
\* successful unregister_user by a registered user makes w 'registered' when
\* nobody is ahead of w, and otherwise leaves w waitlisted with one user
\* fewer ahead.
C28_WaitlistedAreServed ==
  [][result'.op = "unregister_user" =>
     \A e \in EventIds : \A v \in UserIds : \A w \in UserIds \ {v} :
       (/\ StatusOf(table.byUser[<<v, e>>]) = "registered"
        /\ Waitlisted(table, w, e)
        /\ NoTie(table, w, e)
        /\ unregister_user(v, e)
        /\ result'.outcome = "ok")
       => IF Ahead(table, w, e) = {}
          THEN StatusOf(table'.byUser[<<w, e>>]) = "registered"
          ELSE /\ Waitlisted(table', w, e)
               /\ Cardinality(Ahead(table', w, e)) = Cardinality(Ahead(table, w, e)) - 1]_vars

\* the call of p has ended with RepositoryError
Failed(c) == c.pc = "done" /\ c.outcome = "RepositoryError"

\* C29: when a store call fails inside register_user or unregister_user the
\* call ends with RepositoryError at that step and the step writes nothing, so
\* every write the call made before stays; and until the worker is given another
\* call, the failed call makes no store call: the table stays as it is.
C29_FailureStopsTheCall ==
  [][\A p \in Worker :
       /\ (~Failed(calls[p]) \/ calls'[p].served # calls[p].served)
           /\ calls'[p].outcome = "RepositoryError"
           => Failed(calls'[p]) /\ table' = table
       /\ Failed(calls[p]) /\ calls'[p].served = calls[p].served
           => calls'[p] = calls[p] /\ table' = table]_vars

\* register_user has incremented the counter and its by-user put_item failed:
\* the counter counts a registration that no record holds
C29_Witness ==
  \E p \in Worker, e \in EventIds :
    /\ Failed(calls[p])
    /\ calls[p].op = "register_user"
    /\ table.events[e] # NoItem
    /\ table.events[e].currentRegistrations = RegisteredCount(table, e) + 1
    /\ table.byUser[<<calls[p].userId, e>>] = NoItem
    /\ table.byEvent[<<calls[p].userId, e>>] = NoItem

\* the Event items found on the pages of the table
EventItems(t) ==
  {item \in UNION {{t.pages[i][k] : k \in 1..Len(t.pages[i])} : i \in 1..Len(t.pages)} :
     item.SK = "METADATA"}

\* C30: list_all returns exactly the Event items found on all pages together,
\* each once, restricted to the events whose status equals the filter when a
\* status filter is given.
C30_ListAllReturnsEvents ==
  [][\A status_filter \in StatusFilters :
       list_all(status_filter) =>
         LET expected == {[eventId |-> item.eventId, status |-> item.status] :
                            item \in {x \in EventItems(table) :
                                        status_filter = "None" \/ x.status = status_filter}}
         IN /\ {result'.items[i] : i \in 1..Len(result'.items)} = expected
            /\ Len(result'.items) = Cardinality(expected)]_vars

\* C31: unregister_user never creates a registration: a by-user or by-event
\* record of a pair (v, e) appears only in a step of register_user(v, e), and
\* a step changes the status of a record only if the user held a 'waitlisted'
\* record before it.
C31_UnregisterCreatesNoRegistration ==
  [][\A p \in Pairs :
       /\ (table.byUser[p] = NoItem /\ table'.byUser[p] # NoItem)
           \/ (table.byEvent[p] = NoItem /\ table'.byEvent[p] # NoItem)
           => result'.op = "register_user" /\ register_user(p[1], p[2])
       /\ (table.byUser[p] # NoItem /\ table'.byUser[p] # NoItem
            /\ StatusOf(table'.byUser[p]) # StatusOf(table.byUser[p]))
           \/ (table.byEvent[p] # NoItem /\ table'.byEvent[p] # NoItem
                /\ StatusOf(table'.byEvent[p]) # StatusOf(table.byEvent[p]))
           => Waitlisted(table, p[1], p[2])]_vars

\* some user holds a 'waitlisted' record for e
SomeoneWaits(t, e) ==
  \E u \in UserIds : "waitlisted" \in {StatusOf(t.byUser[<<u, e>>]), StatusOf(t.byEvent[<<u, e>>])}

\* C32: in sequential histories of register_user and unregister_user on events
\* whose capacity is not modified, whenever some user is 'waitlisted' on an
\* event its currentRegistrations >= capacity, and register_user returns
\* 'registered' only when no user is waitlisted on the event.
C32_NoFreeSlotWhileWaiting ==
  [][\A e \in EventIds :
       /\ SomeoneWaits(table', e) =>
            table'.events[e].currentRegistrations >= table'.events[e].capacity
       /\ \A u \in UserIds :
            (/\ result'.op = "register_user" /\ register_user(u, e)
             /\ result'.outcome = "ok" /\ result'.status = "registered")
            => ~SomeoneWaits(table, e)]_vars

\* a registered user has left an event on which two users waited: one of them
\* was promoted, the other still waits, and the event is full
C32_Witness ==
  /\ Completed("unregister_user")
  /\ \E e \in EventIds, u \in UserIds, v \in UserIds :
       /\ Waitlisted(table, u, e)
       /\ StatusOf(table.byUser[<<v, e>>]) = "registered"
       /\ Cardinality(WaitlistOf(table, e)) = 1
       /\ table.events[e].currentRegistrations = table.events[e].capacity

\* C33: currentRegistrations >= 0 in every reachable state, for any sequence
\* and any interleaving of API operations.
C33_CounterNonNegative ==
  \A e \in EventIds :
    table.events[e] # NoItem => table.events[e].currentRegistrations >= 0

\* C34: unregister_user(u, e) for a user with status 'registered' whose Event
\* item has been deleted completes successfully, removes both mirrors of
\* (u, e), and creates no item under (EVENT#e, METADATA).
C34_UnregisterAfterEventDeleted ==
  [][result'.op = "unregister_user" =>
     \A u \in UserIds, e \in EventIds :
       (/\ table.byUser[<<u, e>>] = RegistrationItem(u, e, "registered")
        /\ table.events[e] = NoItem
        /\ unregister_user(u, e))
       => /\ result'.outcome = "ok"
          /\ table'.byUser[<<u, e>>] = NoItem
          /\ table'.byEvent[<<u, e>>] = NoItem
          /\ table'.events[e] = NoItem]_vars

\* C35: in any sequential history, after every completed engine call, every
\* user whose status on event e is 'waitlisted' has at least one waitlist
\* entry under EVENT#e.
C35_WaitlistedHasEntry ==
  \A u \in UserIds, e \in EventIds :
    "waitlisted" \in {StatusOf(table.byUser[<<u, e>>]), StatusOf(table.byEvent[<<u, e>>])}
    => \E w \in WaitlistOf(table, e) : w.userId = u

\* an unregister has promoted one of two waiting users; the other still waits
\* and holds the one entry left
C35_Witness ==
  /\ Completed("unregister_user")
  /\ \E e \in EventIds, u \in UserIds, v \in UserIds :
       /\ Waitlisted(table, u, e)
       /\ table.byUser[<<v, e>>] = RegistrationItem(v, e, "registered")
       /\ \A w \in WaitlistOf(table, e) : w.userId = u
       /\ table.events[e].currentRegistrations = 1

\* the step is taken by unregister_user(v, e): the handler as one action, or a
\* store call of a worker serving it
ByUnregister(v, e) ==
  \/ result'.op = "unregister_user" /\ unregister_user(v, e)
  \/ \E w \in Procs : /\ InFlight(w) /\ calls'[w] # calls[w]
                       /\ calls[w].op = "unregister_user"
                       /\ calls[w].userId = v /\ calls[w].eventId = e

\* a step from the record before to the record after moves the status forward
Forward(before, after, u, e) ==
  /\ StatusOf(before) = "registered" =>
       \/ StatusOf(after) = "registered"
       \/ after = NoItem /\ ByUnregister(u, e)
  /\ StatusOf(before) = "waitlisted" /\ StatusOf(after) \notin {"waitlisted", "none"} =>
       /\ StatusOf(after) = "registered"
       /\ \E v \in UserIds \ {u} : ByUnregister(v, e)

\* C36: a record of (u, e) with status 'registered' keeps that status until
\* unregister_user(u, e) deletes it; no operation changes a record from
\* 'registered' to 'waitlisted', and the only change of status is 'waitlisted'
\* to 'registered' during another user's unregister.
C36_StatusMovesForward ==
  [][\A p \in Pairs :
       /\ Forward(table.byUser[p], table'.byUser[p], p[1], p[2])
       /\ Forward(table.byEvent[p], table'.byEvent[p], p[1], p[2])]_vars

\* the items of event e: its metadata and counter, the registration mirrors
\* of every user, and its waitlist entries
ItemsOf(t, e) ==
  [metadata |-> t.events[e],
   byUser   |-> [u \in UserIds |-> t.byUser[<<u, e>>]],
   byEvent  |-> [u \in UserIds |-> t.byEvent[<<u, e>>]],
   waitlist |-> WaitlistOf(t, e)]

\* C37: register_user(u, e) and unregister_user(u, e) leave every item of
\* every other event (metadata and counter, registration mirrors, waitlist
\* entries), every user profile, and the by-user records of u for other
\* events unchanged.
C37_OtherEventsUntouched ==
  [][\A u \in QueryUserIds, e \in QueryEventIds :
       (\/ result'.op = "register_user" /\ register_user(u, e)
        \/ result'.op = "unregister_user" /\ unregister_user(u, e))
       => /\ table'.users = table.users
          /\ \A other \in QueryEventIds \ {e} :
               ItemsOf(table', other) = ItemsOf(table, other)]_vars

\* unregister_user(a, e1) has promoted b on e1 while b waits on e2, where a is
\* registered
C37_Witness ==
  /\ Completed("unregister_user")
  /\ table.byUser[<<"a", "e1">>] = NoItem
  /\ table.byUser[<<"b", "e1">>] = RegistrationItem("b", "e1", "registered")
  /\ table.byUser[<<"a", "e2">>] = RegistrationItem("a", "e2", "registered")
  /\ Waitlisted(table, "b", "e2")
  /\ WaitlistOf(table, "e1") = {}
  /\ WaitlistOf(table, "e2") # {}

\* C38: the handlers of main.py and the layered RegistrationService are the
\* same state machine: from every table of a sequential history, a register or
\* unregister request leaves the same table (the same store writes) and
\* returns the same outcome kind whichever application serves it.
C38_MonolithEqualsLayered ==
  [][\A u \in UserIds, e \in EventIds :
       /\ (result'.op = "register_user" /\ register_user(u, e)) =>
            \E timestamp \in now..MaxClock :
              LET call == register_user_for_event(table, u, e, timestamp) IN
              /\ result'.outcome = "ok" => timestamp = now'
              /\ call.table = table'
              /\ OutcomeKind(call.response) = OutcomeKind(result')
       /\ (result'.op = "unregister_user" /\ unregister_user(u, e)) =>
            LET call == unregister_user_from_event(table, u, e) IN
            /\ call.table = table'
            /\ OutcomeKind(call.response) = OutcomeKind(result')]_vars

====
